---------------------------- MODULE Spec2Model ----------------------------
(***************************************************************************)
(* SWAN Marking Assistant: the upload handlers of swan_2.py (whose         *)
(* run_swan_analysis is repeated verbatim in "swan_2 - Copy.py") and of    *)
(* swan_app.py.                                                            *)
(*                                                                         *)
(* A text is a sequence of one-character strings, so that len(), strip(),  *)
(* lower(), substring tests and the regular expression of                  *)
(* find_spelling_issues are computed character by character.               *)
(***************************************************************************)
EXTENDS Integers, Sequences, FiniteSets, TLC

(***************************************************************************)
(* Program constant and the bounds of the explored inputs.                 *)
(***************************************************************************)
SHORT_PARAGRAPH_LIMIT == 260

MaxParas == 2
MaxSheets == 1
MaxCells == 3
MaxSlides == 1
MaxShapes == 2

(***************************************************************************)
(* Characters.                                                             *)
(***************************************************************************)
Uppers == <<"A", "B", "C", "D", "E", "F", "G", "H", "I", "J", "K", "L", "M",
            "N", "O", "P", "Q", "R", "S", "T", "U", "V", "W", "X", "Y", "Z">>
Lowers == <<"a", "b", "c", "d", "e", "f", "g", "h", "i", "j", "k", "l", "m",
            "n", "o", "p", "q", "r", "s", "t", "u", "v", "w", "x", "y", "z">>
UpperLetters == {Uppers[i] : i \in 1..Len(Uppers)}
LowerLetters == {Lowers[i] : i \in 1..Len(Lowers)}
Digits == {"0", "1", "2", "3", "4", "5", "6", "7", "8", "9"}
Whitespace == {" "}

Letters == UpperLetters \cup LowerLetters
WordChars == Letters \cup Digits \cup {"_"}
ToLower == [c \in UpperLetters |-> Lowers[CHOOSE i \in 1..Len(Uppers) : Uppers[i] = c]]

\* [a-zA-Z]
IsLetter(c) == c \in Letters
\* \w : letters, digits and the underscore
IsWordChar(c) == c \in WordChars

\* str.lower() on one character
LowerChar(c) == IF c \in UpperLetters THEN ToLower[c] ELSE c

\* str.lower()
lower(s) == [i \in 1..Len(s) |-> LowerChar(s[i])]

\* str.strip(): leading and trailing whitespace removed
strip(s) ==
  LET keep == {i \in 1..Len(s) : s[i] \notin Whitespace}
  IN  IF keep = {} THEN <<>>
      ELSE LET lo == CHOOSE i \in keep : \A j \in 1..(i - 1) : s[j] \in Whitespace
               hi == CHOOSE i \in keep : \A j \in (i + 1)..Len(s) : s[j] \in Whitespace
           IN  SubSeq(s, lo, hi)

\* `pat in s` for strings
Contains(s, pat) ==
  \E i \in 1..(Len(s) - Len(pat) + 1) : \A k \in 1..Len(pat) : s[i + k - 1] = pat[k]

\* s.startswith(pat)
StartsWith(s, pat) == Len(s) >= Len(pat) /\ \A k \in 1..Len(pat) : s[k] = pat[k]

\* concatenation of a sequence of lists (list.extend in a loop, flatten)
RECURSIVE Concat(_)
Concat(seqs) == IF seqs = <<>> THEN <<>> ELSE Head(seqs) \o Concat(Tail(seqs))

\* " ".join(parts)
RECURSIVE Join(_)
Join(parts) ==
  IF parts = <<>> THEN <<>>
  ELSE IF Len(parts) = 1 THEN parts[1]
  ELSE parts[1] \o <<" ">> \o Join(Tail(parts))

\* str(n) for a slide index
DigitOf(n) == CASE n = 0 -> "0" [] n = 1 -> "1" [] n = 2 -> "2" [] n = 3 -> "3"
                [] n = 4 -> "4" [] n = 5 -> "5" [] n = 6 -> "6" [] n = 7 -> "7"
                [] n = 8 -> "8" [] n = 9 -> "9"
RECURSIVE IntToText(_)
IntToText(n) == IF n < 10 THEN <<DigitOf(n)>>
                ELSE IntToText(n \div 10) \o <<DigitOf(n % 10)>>

(***************************************************************************)
(* Literal texts of the program.                                           *)
(***************************************************************************)
SheetPrefix == <<"S", "h", "e", "e", "t", ":", " ">>
SlidePrefix == <<"S", "l", "i", "d", "e", " ">>
SheetNeedle == <<"s", "h", "e", "e", "t", ":">>
SlideNeedle == <<"s", "l", "i", "d", "e">>
NanText == <<"n", "a", "n">>
HeadingPrefix == <<"H", "e", "a", "d", "i", "n", "g">>
ListNeedle == <<"L", "i", "s", "t">>

MsgUnsupported == "Unsupported file type."
MsgNoContent == "No readable content was found in the file."
MsgHeadings == "You have used headings to organise your work."
MsgBullets == "Bullet points help make your ideas clear and easy to read."
MsgSheets == "Your work is organised into clear sections or sheets."
MsgSlides == "Your slides are clearly separated and labelled."
MsgDetail == "Most of your sections are developed with enough detail."
MsgShort == "Some sections are very short and lack detail."
ActShort == "Action: Choose one short section and add at least one example or explanation."
MsgConclusion == "There is no clear conclusion at the end of your work."
ActConclusion == "Action: Add a short conclusion that summarises your key points and links back to the question or purpose."
MsgRepeat == "The same word or phrase is repeated many times, which may be a spelling or vocabulary issue."
ActRepeat == "Action: Review repeated words and check their spelling or replace some with alternatives."
\* the third append left out
NextStepsTwo == << "Read your work aloud to check that it flows logically and makes sense.",
                   "Compare your structure to a model answer or exemplar to see how you could improve organisation." >>

NextSteps == << "Read your work aloud to check that it flows logically and makes sense.",
                "Compare your structure to a model answer or exemplar to see how you could improve organisation.",
                "Ask a peer or teacher to highlight one section that could be clearer, then rewrite it." >>

\* swan_app.py words its feedback differently
AppMsgDetail == "Most of your paragraphs are developed with enough detail."
AppMsgShort == "One paragraph is very short and lacks detail."
AppActShort == "Action: Rewrite the short paragraph and add one example."
AppActConclusion == "Action: Add a short conclusion that links back to the question."
AppMsgRepeat == "The same word is misspelt several times."
AppActRepeat == "Action: Find and fix the spelling errors in your work."

(***************************************************************************)
(* Uploaded files.  A Word file is its paragraphs (text and style name), a *)
(* workbook its sheets (name and grid of cells as pandas reads them), a    *)
(* deck its slides (each a list of shapes, some without a text frame).     *)
(***************************************************************************)
Dots(n) == [i \in 1..n |-> "."]
PadTo(core, n) == IF Len(core) >= n THEN core ELSE core \o Dots(n - Len(core))

Word1 == <<"a", "b", "c">>
Word2 == <<"A", "b", "c", " ", "a", "b", "c">>
NoWords == <<"a", "b", " ", "a", "b", " ", "a", "b", " ",
             "a", "b", "c", "1", " ", "a", "b", "c", "1", " ", "a", "b", "c", "1">>

ShortTexts == {<<" ">>, Word1, Word2, NoWords}
\* the third is one character under the limit once stripped
LongTexts == {PadTo(<<>>, SHORT_PARAGRAPH_LIMIT), PadTo(Word2, SHORT_PARAGRAPH_LIMIT),
              PadTo(<<" ">>, SHORT_PARAGRAPH_LIMIT)}
Texts == ShortTexts \cup LongTexts

StyleNormal == <<"N", "o", "r", "m", "a", "l">>
StyleHeading == <<"H", "e", "a", "d", "i", "n", "g", " ", "1">>
StyleList == <<"L", "i", "s", "t", " ", "B", "u", "l", "l", "e", "t">>
Styles == {StyleNormal, StyleHeading, StyleList}

SeqsUpTo(S, n) == UNION {[1..k -> S] : k \in 0..n}

DocxParagraph == [text : Texts, style : Styles]

NaN == [isnan |-> TRUE, text |-> <<>>]
Cell(t) == [isnan |-> FALSE, text |-> t]
Cells == {NaN, Cell(PadTo(Word1, SHORT_PARAGRAPH_LIMIT))}
SheetNames == {<<"S">>}
GridShapes == {d \in (0..MaxCells) \X (1..MaxCells) : d[1] * d[2] <= MaxCells}
\* the reader trims the empty rows and columns that trail the data
Trimmed(g) ==
  g # <<>> => /\ \E c \in 1..Len(g[Len(g)]) : ~g[Len(g)][c].isnan
              /\ \E r \in 1..Len(g) : ~g[r][Len(g[r])].isnan
Grids == {g \in UNION {[1..d[1] -> [1..d[2] -> Cells]] : d \in GridShapes} : Trimmed(g)}
Sheets == [name : SheetNames, rows : Grids]

NoTextShape == [hasText |-> FALSE, text |-> <<>>]
Shape(t) == [hasText |-> TRUE, text |-> t]
Shapes == {NoTextShape, Shape(<<" ">>), Shape(Word1),
           Shape(PadTo(<<>>, SHORT_PARAGRAPH_LIMIT))}

File(e, ps, sh, sl) == [ext |-> e, paragraphs |-> ps, sheets |-> sh, slides |-> sl]
NoFile == File("", <<>>, <<>>, <<>>)
DocxFiles == {File(".docx", ps, <<>>, <<>>) : ps \in SeqsUpTo(DocxParagraph, MaxParas)}
XlsxFiles == {File(".xlsx", <<>>, sh, <<>>) : sh \in SeqsUpTo(Sheets, MaxSheets) \ {<<>>}}
PptxFiles == {File(".pptx", <<>>, <<>>, sl) : sl \in SeqsUpTo(SeqsUpTo(Shapes, MaxShapes), MaxSlides)}
OtherFiles == {File(".txt", <<>>, <<>>, <<>>)}

(***************************************************************************)
(* Text extraction helpers.                                                *)
(***************************************************************************)
NonEmpty(t) == t # <<>>

extract_text_from_docx(file) ==
  [doc |-> file.paragraphs,
   paragraphs |-> SelectSeq([i \in 1..Len(file.paragraphs) |-> strip(file.paragraphs[i].text)],
                            NonEmpty)]

\* pd.read_excel with its default header=0: the first row names the columns
read_excel(sheet) == IF sheet.rows = <<>> THEN <<>> ELSE Tail(sheet.rows)

\* DataFrame.astype(str) on one cell; a missing value becomes the text "nan"
\* or stays missing, depending on the pandas release (nanAsText)
astype_str(cell, nanAsText) ==
  IF cell.isnan /\ nanAsText THEN Cell(NanText) ELSE cell

\* DataFrame.fillna("") on one cell, read as a str
fillna(cell) == IF cell.isnan THEN <<>> ELSE cell.text

flat_values(df, nanAsText) ==
  Concat([r \in 1..Len(df) |->
            [c \in 1..Len(df[r]) |-> fillna(astype_str(df[r][c], nanAsText))]])

StripsNonEmpty(v) == strip(v) # <<>>

RECURSIVE xlsx_blocks(_, _)
xlsx_blocks(sheets, nanAsText) ==
  IF sheets = <<>> THEN <<>>
  ELSE <<SheetPrefix \o Head(sheets).name>>
       \o SelectSeq(flat_values(read_excel(Head(sheets)), nanAsText), StripsNonEmpty)
       \o xlsx_blocks(Tail(sheets), nanAsText)

extract_text_from_xlsx(file, nanAsText) ==
  [doc |-> <<>>, paragraphs |-> xlsx_blocks(file.sheets, nanAsText)]

ShapeHasText(shape) == shape.hasText /\ strip(shape.text) # <<>>

slide_text(slide) ==
  LET kept == SelectSeq(slide, ShapeHasText)
  IN  [i \in 1..Len(kept) |-> strip(kept[i].text)]

RECURSIVE pptx_blocks(_, _)
pptx_blocks(slides, slide_idx) ==
  IF slides = <<>> THEN <<>>
  ELSE (IF slide_text(Head(slides)) # <<>>
        THEN <<SlidePrefix \o IntToText(slide_idx) \o <<":">> >> \o slide_text(Head(slides))
        ELSE <<>>)
       \o pptx_blocks(Tail(slides), slide_idx + 1)

extract_text_from_pptx(file) ==
  [doc |-> <<>>, paragraphs |-> pptx_blocks(file.slides, 1)]

(***************************************************************************)
(* Structural analysis helpers.                                            *)
(***************************************************************************)
IsHeadingStyle(p) == StartsWith(p.style, HeadingPrefix)
IsListStyle(p) == Contains(p.style, ListNeedle)

count_headings_docx(doc) == Len(SelectSeq(doc, IsHeadingStyle))

has_bullets_docx(doc) == \E i \in 1..Len(doc) : IsListStyle(doc[i])

\* <= in place of <
IsShortInclusive(p) == Len(p) <= SHORT_PARAGRAPH_LIMIT

IsShort(p) == Len(p) < SHORT_PARAGRAPH_LIMIT

find_short_paragraphs(paragraphs) == SelectSeq(paragraphs, IsShort)

\* re.findall(r"\b[a-zA-Z]{3,}\b", text): the maximal runs of letters, at least
\* three long, with no word character on either side, in order of position
RunEnd(text, i) ==
  CHOOSE j \in i..Len(text) :
    /\ j = Len(text) \/ ~IsLetter(text[j + 1])
    /\ \A k \in i..j : IsLetter(text[k])

IsMatch(text, i) ==
  LET j == RunEnd(text, i)
  IN  /\ j - i + 1 >= 3
      /\ (i = 1 \/ ~IsWordChar(text[i - 1]))
      /\ (j = Len(text) \/ ~IsWordChar(text[j + 1]))

RECURSIVE Ascending(_)
Ascending(S) ==
  IF S = {} THEN <<>>
  ELSE LET m == CHOOSE x \in S : \A y \in S : x <= y
       IN  <<m>> \o Ascending(S \ {m})

findall(text) ==
  LET runs == {i \in 1..Len(text) :
                 IsLetter(text[i]) /\ (i = 1 \/ ~IsLetter(text[i - 1]))}
      at == Ascending({i \in runs : IsMatch(text, i)})
  IN  [n \in 1..Len(at) |-> SubSeq(text, at[n], RunEnd(text, at[n]))]

\* Counter(words)[w]
Count(words, w) == Cardinality({n \in 1..Len(words) : words[n] = w})

\* the keys of Counter(words), in order of first occurrence
Keys(words) ==
  LET first == {n \in 1..Len(words) : \A m \in 1..(n - 1) : words[m] # words[n]}
      idx == Ascending(first)
  IN  [n \in 1..Len(idx) |-> words[idx[n]]]

\* c >= 2 in place of c >= 3
find_spelling_issues_twice(paragraphs) ==
  LET words == findall(lower(Join(paragraphs)))
      keys == Keys(words)
      hit == {n \in 1..Len(keys) : Count(words, keys[n]) >= 2}
      idx == Ascending(hit)
  IN  [n \in 1..Len(idx) |-> keys[idx[n]]]

find_spelling_issues(paragraphs) ==
  LET words == findall(lower(Join(paragraphs)))
      keys == Keys(words)
      hit == {n \in 1..Len(keys) : Count(words, keys[n]) >= 3}
      idx == Ascending(hit)
  IN  [n \in 1..Len(idx) |-> keys[idx[n]]]

(***************************************************************************)
(* SWAN engine (swan_2.py).  Append(list, x) under a condition is written  *)
(* list \o When(cond, x).                                                  *)
(***************************************************************************)
When(cond, x) == IF cond THEN <<x>> ELSE <<>>

ContainsSheet(p) == Contains(lower(p), SheetNeedle)
ContainsSlide(p) == Contains(lower(p), SlideNeedle)

Report(ex, ps, st, we, ac, ns, sh, sp) ==
  [extractor |-> ex, paragraphs |-> ps, strengths |-> st, weaknesses |-> we,
   actions |-> ac, next_steps |-> ns, short_paras |-> sh, spelling_issues |-> sp]

\* the early return also hands out the three next steps
EarlyReturnWithNextSteps(ex, ps, msg) ==
  Report(ex, ps, <<>>, <<msg>>, <<>>, NextSteps, <<>>, <<>>)

\* return [], [msg], [], []
EarlyReturn(ex, ps, msg) == Report(ex, ps, <<>>, <<msg>>, <<>>, <<>>, <<>>, <<>>)

Strengths(ext, doc, paragraphs, short_paras) ==
     When(ext = ".docx" /\ count_headings_docx(doc) >= 1, MsgHeadings)
  \o When(ext = ".docx" /\ has_bullets_docx(doc), MsgBullets)
  \o When(ext \in {".xlsx", ".pptx"} /\ (\E i \in 1..Len(paragraphs) : ContainsSheet(paragraphs[i])), MsgSheets)
  \o When(ext \in {".xlsx", ".pptx"} /\ (\E i \in 1..Len(paragraphs) : ContainsSlide(paragraphs[i])), MsgSlides)
  \o When(short_paras = <<>>, MsgDetail)

\* <= in place of <
LastIsShortInclusive(paragraphs) ==
  Len(paragraphs[Len(paragraphs)]) <= SHORT_PARAGRAPH_LIMIT

\* len(paragraphs[-1]) < SHORT_PARAGRAPH_LIMIT
LastIsShort(paragraphs) == Len(paragraphs[Len(paragraphs)]) < SHORT_PARAGRAPH_LIMIT

Weaknesses(hasShort, lastShort, hasRepeat) ==
     When(hasShort, MsgShort)
  \o When(lastShort, MsgConclusion)
  \o When(hasRepeat, MsgRepeat)

\* the conclusion action appended before the short-section action
ActionsConclusionFirst(hasShort, lastShort, hasRepeat) ==
     When(lastShort, ActConclusion)
  \o When(hasShort, ActShort)
  \o When(hasRepeat, ActRepeat)

Actions(hasShort, lastShort, hasRepeat) ==
     When(hasShort, ActShort)
  \o When(lastShort, ActConclusion)
  \o When(hasRepeat, ActRepeat)

run_swan_analysis(file, ext, nanAsText) ==
  IF ext \notin {".docx", ".xlsx", ".pptx"}
  THEN EarlyReturn("none", <<>>, MsgUnsupported)
  ELSE
    LET got == CASE ext = ".docx" -> extract_text_from_docx(file)
                 [] ext = ".xlsx" -> extract_text_from_xlsx(file, nanAsText)
                 [] ext = ".pptx" -> extract_text_from_pptx(file)
        doc == got.doc
        paragraphs == got.paragraphs
    IN  IF paragraphs = <<>>
        THEN EarlyReturn(ext, paragraphs, MsgNoContent)
        ELSE
          LET short_paras == find_short_paragraphs(paragraphs)
              spelling_issues == find_spelling_issues(paragraphs)
              lastShort == LastIsShort(paragraphs)
          IN  Report(ext, paragraphs,
                     Strengths(ext, doc, paragraphs, short_paras),
                     Weaknesses(short_paras # <<>>, lastShort, spelling_issues # <<>>),
                     Actions(short_paras # <<>>, lastShort, spelling_issues # <<>>),
                     NextSteps, short_paras, spelling_issues)

(***************************************************************************)
(* The Word-only script (swan_app.py).                                     *)
(***************************************************************************)
extract_text(doc) ==
  SelectSeq([i \in 1..Len(doc) |-> strip(doc[i].text)], NonEmpty)

count_headings(doc) == Len(SelectSeq(doc, IsHeadingStyle))

has_bullets(doc) == \E i \in 1..Len(doc) : IsListStyle(doc[i])

\* the lists as they stand when the script stops; paragraphs[-1] on an empty
\* list raises IndexError after the strengths and the short-paragraph check
swan_app(file) ==
  LET doc == file.paragraphs
      paragraphs == extract_text(doc)
      short_paras == find_short_paragraphs(paragraphs)
      strengths ==
           When(count_headings(doc) >= 1, MsgHeadings)
        \o When(has_bullets(doc), MsgBullets)
        \o When(short_paras = <<>>, AppMsgDetail)
  IN  IF paragraphs = <<>>
      THEN [fault |-> TRUE,
            report |-> Report(".docx", paragraphs, strengths, <<>>, <<>>, <<>>,
                              short_paras, <<>>)]
      ELSE
        LET spelling_issues == find_spelling_issues(paragraphs)
            lastShort == Len(paragraphs[Len(paragraphs)]) < SHORT_PARAGRAPH_LIMIT
            weaknesses ==
                 When(short_paras # <<>>, AppMsgShort)
              \o When(lastShort, MsgConclusion)
              \o When(spelling_issues # <<>>, AppMsgRepeat)
            actions ==
                 When(short_paras # <<>>, AppActShort)
              \o When(lastShort, AppActConclusion)
              \o When(spelling_issues # <<>>, AppActRepeat)
        IN  [fault |-> FALSE,
             report |-> Report(".docx", paragraphs, strengths, weaknesses, actions, <<>>,
                               short_paras, spelling_issues)]

(***************************************************************************)
(* State: which script is served, the file in the uploader, where the      *)
(* script run stands, and the lists the run produced.                      *)
(***************************************************************************)
VARIABLES script, uploaded, pc, report

vars == <<script, uploaded, pc, report>>

NoReport == Report("none", <<>>, <<>>, <<>>, <<>>, <<>>, <<>>, <<>>)

Init ==
  /\ script \in {"swan_2", "swan_app"}
  /\ uploaded = NoFile
  /\ pc = "waiting"
  /\ report = NoReport

\* what astype(str) does to a missing cell is settled by the installed pandas;
\* it matters to workbooks only
PandasReleases(f) == IF f.ext = ".xlsx" THEN BOOLEAN ELSE {TRUE}

\* a file arrives in the uploader of swan_2.py and the script reruns:
\* the `if uploaded:` body, from the extension to the four lists
Analyse ==
  /\ script = "swan_2"
  /\ pc = "waiting"
  /\ \E f \in DocxFiles \cup XlsxFiles \cup PptxFiles \cup OtherFiles :
     \E nanAsText \in PandasReleases(f) :
       /\ uploaded' = f
       /\ report' = run_swan_analysis(f, f.ext, nanAsText)
  /\ pc' = "done"
  /\ UNCHANGED script

\* a Word file arrives in the uploader of swan_app.py and the script reruns
AnalyseWord ==
  /\ script = "swan_app"
  /\ pc = "waiting"
  /\ \E f \in DocxFiles :
       LET r == swan_app(f)
       IN  /\ uploaded' = f
           /\ report' = r.report
           /\ pc' = IF r.fault THEN "fault" ELSE "done"
  /\ UNCHANGED script

\* the file is removed from the uploader; the rerun shows the waiting caption
Clear ==
  /\ pc \in {"done", "fault"}
  /\ uploaded' = NoFile
  /\ pc' = "waiting"
  /\ report' = NoReport
  /\ UNCHANGED script

Next == Analyse \/ AnalyseWord \/ Clear

Spec == Init /\ [][Next]_vars

(***************************************************************************)
(* Properties.                                                             *)
(***************************************************************************)
Supported == {".docx", ".xlsx", ".pptx"}
Elems(seq) == {seq[i] : i \in 1..Len(seq)}

\* run_swan_analysis has returned
Ran == script = "swan_2" /\ pc = "done"
\* ... from one of its two early returns
ShortCircuited == Ran /\ (uploaded.ext \notin Supported \/ report.paragraphs = <<>>)
\* ... from its last line
Passed == Ran /\ uploaded.ext \in Supported /\ report.paragraphs # <<>>

\* C1 as stated: whatever the outcome of run_swan_analysis, the next-steps
\* list has exactly three entries.
C1_NextStepsAlwaysThree == Ran => Len(report.next_steps) = 3

\* C1 amended: a run that gets past both early returns yields exactly three
\* next steps, and a run that takes an early return yields none.
C1_NextStepsThreeUnlessShortCircuited ==
  /\ Passed => Len(report.next_steps) = 3
  /\ ShortCircuited => report.next_steps = <<>>

C1_Witness == Passed /\ uploaded.ext = ".pptx" /\ Len(report.next_steps) = 3

\* C2: an unsupported extension returns the single weakness "Unsupported file
\* type." without running an extractor, an empty extraction returns the single
\* weakness "No readable content was found in the file."; the other three
\* lists are empty in both cases.
C2_ShortCircuits ==
  /\ (Ran /\ uploaded.ext \notin Supported) =>
        /\ report.extractor = "none"
        /\ report.strengths = <<>>
        /\ report.weaknesses = <<"Unsupported file type.">>
        /\ report.actions = <<>>
        /\ report.next_steps = <<>>
  /\ (Ran /\ uploaded.ext \in Supported /\ report.paragraphs = <<>>) =>
        /\ report.extractor = uploaded.ext
        /\ report.strengths = <<>>
        /\ report.weaknesses = <<"No readable content was found in the file.">>
        /\ report.actions = <<>>
        /\ report.next_steps = <<>>

C2_Witness ==
  /\ Ran
  /\ uploaded.ext = ".docx"
  /\ uploaded.paragraphs # <<>>
  /\ report.paragraphs = <<>>
  /\ report.weaknesses = <<MsgNoContent>>

PairedAction(w) == CASE w = MsgShort -> ActShort
                     [] w = MsgConclusion -> ActConclusion
                     [] w = MsgRepeat -> ActRepeat
                     [] OTHER -> "none"
Rank(w) == CASE w = MsgShort -> 1
             [] w = MsgConclusion -> 2
             [] w = MsgRepeat -> 3
             [] OTHER -> 0

\* C3: after a run that passes the early returns the weaknesses and the
\* actions have the same length, the i-th action is the one paired with the
\* i-th weakness, and the entries come in the order short-block, conclusion,
\* repetition.
C3_ActionsPairedInOrder ==
  Passed =>
    /\ Len(report.weaknesses) = Len(report.actions)
    /\ \A i \in 1..Len(report.weaknesses) :
         /\ Rank(report.weaknesses[i]) > 0
         /\ report.actions[i] = PairedAction(report.weaknesses[i])
    /\ \A i, j \in 1..Len(report.weaknesses) :
         i < j => Rank(report.weaknesses[i]) < Rank(report.weaknesses[j])

C3_Witness == Passed /\ Len(report.weaknesses) = 3 /\ Len(report.actions) = 3

\* the matches of \b[a-zA-Z]{3,}\b in the text, as <<first, last>> positions:
\* three or more letters with no word character before or after them
WordSpans(text) ==
  LET starts == {i \in 1..Len(text) :
                   IsLetter(text[i]) /\ (i = 1 \/ ~IsWordChar(text[i - 1]))}
      ends == {j \in 1..Len(text) :
                 IsLetter(text[j]) /\ (j = Len(text) \/ ~IsWordChar(text[j + 1]))}
  IN  {m \in starts \X ends :
         /\ m[2] - m[1] + 1 >= 3
         /\ \A k \in m[1]..m[2] : IsLetter(text[k])}

\* some word of three or more letters occurs three or more times
HasRepeatedWord(text) ==
  LET spans == WordSpans(text)
  IN  \E m \in spans :
        Cardinality({q \in spans :
                       SubSeq(text, q[1], q[2]) = SubSeq(text, m[1], m[2])}) >= 3

Bit(b) == IF b THEN 1 ELSE 0

\* C5: with no short block, a last block of at least the limit and no word of
\* 3+ letters occurring 3 or more times, weaknesses and actions are empty;
\* each of the three conditions adds exactly one weakness and one action, in
\* every format.
C5_WeaknessesIffConditions ==
  Passed =>
    LET p == report.paragraphs
        someShort == \E i \in 1..Len(p) : ~(Len(p[i]) >= SHORT_PARAGRAPH_LIMIT)
        lastShort == ~(Len(p[Len(p)]) >= SHORT_PARAGRAPH_LIMIT)
        repeated == HasRepeatedWord(lower(Join(p)))
    IN  /\ (~someShort /\ ~lastShort /\ ~repeated) =>
             (report.weaknesses = <<>> /\ report.actions = <<>>)
        /\ Len(report.weaknesses) = Bit(someShort) + Bit(lastShort) + Bit(repeated)
        /\ Len(report.actions) = Bit(someShort) + Bit(lastShort) + Bit(repeated)
        /\ someShort <=> MsgShort \in Elems(report.weaknesses)
        /\ lastShort <=> MsgConclusion \in Elems(report.weaknesses)
        /\ repeated <=> MsgRepeat \in Elems(report.weaknesses)

C5_Witness ==
  /\ Passed
  /\ Len(report.paragraphs) >= 2
  /\ report.weaknesses = <<>>
  /\ report.actions = <<>>

\* C6: shortness is "length strictly below 260", for find_short_paragraphs
\* and for the conclusion check alike: a block of exactly 260 characters
\* triggers neither weakness, one of 259 characters triggers them, and
\* find_short_paragraphs returns the short blocks in their original order.
C6_StrictlyBelowLimit ==
  Passed =>
    LET p == report.paragraphs
        sp == report.short_paras
        short == {i \in 1..Len(p) : Len(p[i]) + 1 <= 260}
        nth(k) == CHOOSE i \in short : Cardinality({j \in short : j <= i}) = k
    IN  /\ SHORT_PARAGRAPH_LIMIT = 260
        /\ Len(sp) = Cardinality(short)
        /\ \A k \in 1..Len(sp) : sp[k] = p[nth(k)]
        /\ MsgShort \in Elems(report.weaknesses) <=> short # {}
        /\ MsgConclusion \in Elems(report.weaknesses) <=> Len(p) \in short

C6_Witness ==
  /\ Passed
  /\ \E i \in 1..Len(report.paragraphs) :
       Len(report.paragraphs[i]) = SHORT_PARAGRAPH_LIMIT
  /\ \E i \in 1..Len(report.paragraphs) :
       Len(report.paragraphs[i]) = SHORT_PARAGRAPH_LIMIT - 1
  /\ Len(report.short_paras) = 1

\* the first two parts of C9: the conclusion weakness only right after the
\* short-block weakness, and never together with the "enough detail" strength
ConclusionFollowsShort ==
  /\ \A i \in 1..Len(report.weaknesses) :
       report.weaknesses[i] = MsgConclusion =>
         (i > 1 /\ report.weaknesses[i - 1] = MsgShort)
  /\ ~(MsgDetail \in Elems(report.strengths)
       /\ MsgConclusion \in Elems(report.weaknesses))

BothWeaknessesFirst ==
  /\ Len(report.weaknesses) >= 2
  /\ SubSeq(report.weaknesses, 1, 2) = <<MsgShort, MsgConclusion>>
  /\ Len(report.actions) >= 2
  /\ SubSeq(report.actions, 1, 2) = <<ActShort, ActConclusion>>

\* C9 as stated: the conclusion weakness appears only right after the
\* short-block weakness, never together with the "enough detail" strength,
\* and a document with exactly one short block reports both weaknesses with
\* two paired actions.
C9_OneShortBlockReportsBoth ==
  Passed =>
    /\ ConclusionFollowsShort
    /\ Len(report.short_paras) = 1 => BothWeaknessesFirst

\* C9 amended: as above, but it is a document consisting of exactly one
\* block, that block short, which reports both weaknesses with two paired
\* actions.
C9_SingleShortBlockReportsBoth ==
  Passed =>
    /\ ConclusionFollowsShort
    /\ (Len(report.paragraphs) = 1 /\ Len(report.short_paras) = 1) => BothWeaknessesFirst

C9_Witness ==
  /\ Passed
  /\ uploaded.ext = ".docx"
  /\ Len(report.paragraphs) = 1
  /\ report.strengths = <<MsgHeadings>>
  /\ report.weaknesses = <<MsgShort, MsgConclusion>>
  /\ Len(report.actions) = 2

\* the cells of a grid that hold a value, row by row
RECURSIVE Filled(_)
Filled(rows) ==
  IF rows = <<>> THEN <<>>
  ELSE LET row == Head(rows)
           has == {c \in 1..Len(row) : ~row[c].isnan}
           idx == Ascending(has)
       IN  [n \in 1..Len(idx) |-> row[idx[n]].text] \o Filled(Tail(rows))

\* C4: a workbook with one sheet whose only non-empty cell holds at least
\* SHORT_PARAGRAPH_LIMIT characters and no repeated word gets the "sections
\* or sheets" and the "enough detail" strengths, and no weakness or action.
\* Stated for the workbooks whose cell the extractor does emit, so that the
\* extracted blocks are the marker and the cell.
C4_SingleLongCellHasNoWeakness ==
  (/\ Ran
   /\ uploaded.ext = ".xlsx"
   /\ Len(uploaded.sheets) = 1
   /\ Len(Filled(uploaded.sheets[1].rows)) = 1
   /\ Len(Filled(uploaded.sheets[1].rows)[1]) >= SHORT_PARAGRAPH_LIMIT
   /\ report.paragraphs = <<SheetPrefix \o uploaded.sheets[1].name>>
                            \o Filled(uploaded.sheets[1].rows)) =>
     /\ MsgSheets \in Elems(report.strengths)
     /\ MsgDetail \in Elems(report.strengths)
     /\ report.weaknesses = <<>>
     /\ report.actions = <<>>

RECURSIVE MarkersAndFilledCells(_)
MarkersAndFilledCells(sheets) ==
  IF sheets = <<>> THEN <<>>
  ELSE <<SheetPrefix \o Head(sheets).name>> \o Filled(Head(sheets).rows)
       \o MarkersAndFilledCells(Tail(sheets))

\* C7: the spreadsheet extractor emits, sheet by sheet, the marker
\* "Sheet: <name>" and then exactly the non-empty cells of the sheet, first
\* row included, in row-major order; an empty cell contributes no block.
C7_EveryFilledCellIsABlock ==
  (Ran /\ uploaded.ext = ".xlsx") =>
     report.paragraphs = MarkersAndFilledCells(uploaded.sheets)

\* C8: for a Word document the "uses headings" strength is given iff some
\* extracted block (a paragraph with non-whitespace content) has a heading
\* style, and the bullet strength iff some extracted block has a list style.
C8_StylesOfExtractedBlocksOnly ==
  (Passed /\ uploaded.ext = ".docx") =>
    LET ps == uploaded.paragraphs
        block == {i \in 1..Len(ps) : \E k \in 1..Len(ps[i].text) :
                                       ps[i].text[k] \notin Whitespace}
    IN  /\ MsgHeadings \in Elems(report.strengths)
             <=> \E i \in block : IsHeadingStyle(ps[i])
        /\ MsgBullets \in Elems(report.strengths)
             <=> \E i \in block : IsListStyle(ps[i])

\* C10: in every entry script the last block is indexed only when the
\* extraction is non-empty: an upload without non-whitespace text ends in the
\* "No readable content" weakness, never in an index fault.
C10_EmptyUploadNeverFaults ==
  /\ pc # "fault"
  /\ (pc = "done" /\ uploaded.ext \in Supported /\ report.paragraphs = <<>>) =>
        report.weaknesses = <<MsgNoContent>>

=============================================================================
